---- MODULE Spec2Model ----
(***************************************************************************)
(* GoFinance, "Golang WebScrapper/llm": the aggregation code of            *)
(* sector_analyzer.py (SectorAnalyzer, send_email, main) and of            *)
(* stock_analyzer.py (StockAnalyzer._prepare_category_data).               *)
(*                                                                         *)
(* Numbers.  A Python float is modelled by an exact value: a decimal       *)
(* [mant, exp] (mant * 10^exp) for market caps, a fraction [num, den] for  *)
(* the means, and the value NaN where the library yields not-a-number.     *)
(* Binary rounding of floats is not modelled.                              *)
(* Strings that the code parses are sequences of one-character strings.    *)
(***************************************************************************)
EXTENDS Integers, Sequences, FiniteSets, TLC

VARIABLES
    raw,            \* _convert_market_cap: the market_cap argument
    parsed,         \* _convert_market_cap: the outcome of the call, or Pending
    clock,          \* what datetime.now() returns when it is read next
    stocks,         \* _analyze_sector: the stocks argument
    summary,        \* _analyze_sector: the outcome of the call, or Pending
    cat_stocks,     \* _prepare_category_data: the stocks argument
    cat_summary,    \* _prepare_category_data: the outcome of the call, or Pending
    pc,             \* main of sector_analyzer.py: the step it is at
    pos,            \* fetch_sector_data: the index in SECTORS of the next sector
    sector_data,    \* fetch_sector_data: the dict being built, its items in insertion order
    visited,        \* fetch_sector_data: the sectors the loop has taken, in order
    failed,         \* fetch_sector_data: the sectors whose iteration ended in the except branch
    sorted_sectors, \* _prepare_analysis_content: the sector names in the order written
    overview,       \* send_email: the sector names in the order of the overview
    top_n,          \* _get_top_performers, _get_worst_performers: the argument n
    ranking,        \* the lists the two selections returned for stocks and top_n, or Pending
    given,          \* two calls in a row: the aggregation called and the batch as first passed
    again,          \* two calls in a row: the outcome of the second _analyze_sector, or Pending
    cat_again,      \* two calls in a row: the outcome of the second _prepare_category_data, or Pending
    readings        \* two calls in a row: what datetime.now() returned, call by call

aggVars == <<raw, parsed, stocks, summary, cat_stocks, cat_summary>>
mainVars == <<pc, pos, sector_data, visited, failed, sorted_sectors, overview>>
rankVars == <<top_n, ranking>>
twiceVars == <<given, again, cat_again, readings>>
vars == <<clock, aggVars, mainVars, rankVars, twiceVars>>

\* A call that has not been made yet.
Pending == [state |-> "pending"]

\* The float value NaN.
NaN == [nan |-> TRUE]

(***************************************************************************)
(* Bounds                                                                  *)
(***************************************************************************)
\* Longest market-cap string given to _convert_market_cap.
MaxCapLen == 3
\* Most stocks in a batch given to an aggregation on its own.
MaxBatch == 6
\* Latest clock reading at which an aggregation on its own is called.
MaxClock == 1
\* Largest n given to a selection on its own.
MaxN == 4

(***************************************************************************)
(* Decimals: the float values of market caps                               *)
(***************************************************************************)
RECURSIVE Pow10(_)
Pow10(k) == IF k = 0 THEN 1 ELSE 10 * Pow10(k - 1)

RECURSIVE Normalise(_)
Normalise(d) ==
    IF d.mant = 0 THEN [mant |-> 0, exp |-> 0]
    ELSE IF d.mant % 10 = 0 THEN Normalise([mant |-> d.mant \div 10, exp |-> d.exp + 1])
    ELSE d

Dec(m, e) == Normalise([mant |-> m, exp |-> e])

\* float * float
DecMul(a, b) == Dec(a.mant * b.mant, a.exp + b.exp)

\* float + float
DecAdd(a, b) ==
    IF a.mant = 0 THEN b
    ELSE IF b.mant = 0 THEN a
    ELSE LET e == IF a.exp < b.exp THEN a.exp ELSE b.exp
         IN  Dec(a.mant * Pow10(a.exp - e) + b.mant * Pow10(b.exp - e), e)

(***************************************************************************)
(* float(str), on the characters of CapChars                               *)
(***************************************************************************)
Digits == {"1", "2", "3"}

DigitVal(c) == CASE c = "1" -> 1 [] c = "2" -> 2 [] c = "3" -> 3

\* The characters market-cap strings are drawn from: digits, the decimal
\* point, the three suffixes of the multiplier table, a lower-case suffix and
\* a character that is neither.
CapChars == Digits \cup {".", "T", "B", "M", "t", "x"}

RECURSIVE SeqsUpTo(_, _)
SeqsUpTo(S, n) ==
    IF n = 0 THEN {<<>>}
    ELSE LET shorter == SeqsUpTo(S, n - 1)
         IN  shorter \cup {Append(s, c) : s \in shorter, c \in S}

CapStrings == SeqsUpTo(CapChars, MaxCapLen)

\* The digits of s read as an integer, the decimal point skipped.
RECURSIVE DigitsValue(_)
DigitsValue(s) ==
    IF s = <<>> THEN 0
    ELSE LET c == s[Len(s)]
             front == SubSeq(s, 1, Len(s) - 1)
         IN  IF c = "." THEN DigitsValue(front)
             ELSE 10 * DigitsValue(front) + DigitVal(c)

\* Python's float(s) for s over CapChars: digits with at most one decimal
\* point and at least one digit parse; anything else raises ValueError.
ParseFloat(s) ==
    LET dots == {i \in 1..Len(s) : s[i] = "."}
        digs == {i \in 1..Len(s) : s[i] \in Digits}
    IN  IF /\ \A i \in 1..Len(s) : s[i] \in Digits \cup {"."}
           /\ Cardinality(dots) <= 1
           /\ digs # {}
        THEN LET frac == IF dots = {} THEN 0
                         ELSE Len(s) - (CHOOSE i \in dots : TRUE)
             IN  [exc |-> "none", value |-> Dec(DigitsValue(s), 0 - frac)]
        ELSE [exc |-> "ValueError"]

(***************************************************************************)
(* SectorAnalyzer._convert_market_cap                                      *)
(***************************************************************************)
\* The multiplier table of _convert_market_cap.
Multipliers ==
    [c \in {"T", "B", "M"} |->
        CASE c = "T" -> Dec(1, 12) [] c = "B" -> Dec(1, 9) [] c = "M" -> Dec(1, 6)]

\* The table looked up without regard to case.
MultiplierGetAnyCase(c) ==
    IF c = "t" THEN Multipliers["T"]
    ELSE IF c \in DOMAIN Multipliers THEN Multipliers[c] ELSE Dec(1, 0)

\* dict.get(key, 1) on the multiplier table.
MultiplierGet(c) == IF c \in DOMAIN Multipliers THEN Multipliers[c] ELSE Dec(1, 0)

\* The body of the try block: float(market_cap[:-1]), then the table lookup
\* on market_cap[-1], then the product.
ConvertTry(market_cap) ==
    LET value == ParseFloat(SubSeq(market_cap, 1, Len(market_cap) - 1))
    IN  IF value.exc # "none" THEN [exc |-> value.exc]
        ELSE IF Len(market_cap) = 0 THEN [exc |-> "IndexError"]
        ELSE [exc |-> "none",
              value |-> DecMul(value.value, MultiplierGet(market_cap[Len(market_cap)]))]

\* except IndexError in place of the bare except: a ValueError gets through.
ConvertCatchingIndexError(market_cap) ==
    LET body == ConvertTry(market_cap)
    IN  IF body.exc = "IndexError" THEN [exc |-> "none", value |-> Dec(0, 0)]
        ELSE body

\* try: ... except: return 0.0
_convert_market_cap(market_cap) ==
    LET body == ConvertTry(market_cap)
    IN  IF body.exc # "none" THEN [exc |-> "none", value |-> Dec(0, 0)]
        ELSE body

(***************************************************************************)
(* Market-cap parsing on its own: every string up to MaxCapLen             *)
(***************************************************************************)
\* The variables of the operations a specification does not exercise.
IdleCap == raw = <<>> /\ parsed = Pending
IdleAgg == stocks = <<>> /\ summary = Pending
IdleCat == cat_stocks = <<>> /\ cat_summary = Pending
IdleRank == top_n = 0 /\ ranking = Pending
IdleTwice ==
    /\ given = [call |-> "none", batch |-> <<>>]
    /\ again = Pending
    /\ cat_again = Pending
    /\ readings = <<>>
IdleMain ==
    /\ pc = "idle"
    /\ pos = 1
    /\ sector_data = <<>>
    /\ visited = <<>>
    /\ failed = {}
    /\ sorted_sectors = <<>>
    /\ overview = <<>>

InitCap ==
    /\ raw \in CapStrings
    /\ parsed = Pending
    /\ clock = 0
    /\ IdleAgg
    /\ IdleCat
    /\ IdleMain
    /\ IdleRank
    /\ IdleTwice

ConvertMarketCap ==
    /\ parsed = Pending
    /\ parsed' = _convert_market_cap(raw)
    /\ UNCHANGED <<clock, raw, stocks, summary, cat_stocks, cat_summary, mainVars, rankVars, twiceVars>>

NextCap == ConvertMarketCap

SpecCap == InitCap /\ [][NextCap]_vars

(***************************************************************************)
(* Fractions: the float values of means and variances                      *)
(***************************************************************************)
Abs(x) == IF x < 0 THEN 0 - x ELSE x

RECURSIVE Gcd(_, _)
Gcd(a, b) == IF b = 0 THEN a ELSE Gcd(b, a % b)

\* num / den, den > 0, in lowest terms.
Frac(num, den) ==
    LET g == Gcd(Abs(num), den)
    IN  [num |-> num \div g, den |-> den \div g]

FracLess(a, b) == a.num * b.den < b.num * a.den

FracAdd(a, b) == Frac(a.num * b.den + b.num * a.den, a.den * b.den)

RECURSIVE SumSeq(_)
SumSeq(s) == IF s = <<>> THEN 0 ELSE s[1] + SumSeq(Tail(s))

RECURSIVE SumFrac(_)
SumFrac(s) == IF s = <<>> THEN Frac(0, 1) ELSE FracAdd(s[1], SumFrac(Tail(s)))

(***************************************************************************)
(* The pandas and builtin operations the aggregations call                 *)
(***************************************************************************)
\* A stable sort: seq[a] comes before seq[b] when before[a, b], and elements
\* neither of which is before the other keep their order in seq.
StableSort(seq, before) ==
    LET n == Len(seq)
        rank(i) == 1 + Cardinality({j \in 1..n :
                        \/ before[j, i]
                        \/ (~before[i, j] /\ j < i)})
    IN  [r \in 1..n |-> seq[CHOOSE i \in 1..n : rank(i) = r]]

\* seq[:n]
Take(seq, n) == SubSeq(seq, 1, IF n < Len(seq) THEN n ELSE Len(seq))

\* The fields of sector_analyzer.StockData that the aggregation reads.
\* price, change, sector and timestamp are columns no operation touches.
StockFields == {"symbol", "name", "change_percentage", "volume", "market_cap", "pe_ratio"}

\* DataFrame built with the columns named: the columns are there without rows.
DataFrameWithColumns(rows) == [columns |-> StockFields, rows |-> rows]

\* pd.DataFrame(list of dicts): a frame of no rows has no columns.
DataFrame(rows) ==
    [columns |-> IF rows = <<>> THEN {} ELSE StockFields, rows |-> rows]

\* df[col]: KeyError when the frame has no such column.
Column(df, col) ==
    IF col \in df.columns
    THEN [exc |-> "none", value |-> [i \in 1..Len(df.rows) |-> df.rows[i][col]]]
    ELSE [exc |-> "KeyError"]

\* Series.mean() of integers: NaN on an empty series.
Mean(series) ==
    IF series = <<>> THEN NaN ELSE Frac(SumSeq(series), Len(series))

\* skipna: the NaN entries of a series are left out.
RECURSIVE DropNaN(_)
DropNaN(series) ==
    IF series = <<>> THEN <<>>
    ELSE IF series[1] = NaN THEN DropNaN(Tail(series))
    ELSE <<series[1]>> \o DropNaN(Tail(series))

\* Series.mean() of floats (fractions or NaN): the mean of the entries that
\* are not NaN; NaN when there is none.
MeanFloat(series) ==
    LET kept == DropNaN(series)
        total == SumFrac(kept)
    IN  IF kept = <<>> THEN NaN ELSE Frac(total.num, total.den * Len(kept))

\* Series.std(): the sample standard deviation (ddof = 1), the square root of
\* sum((x - mean)^2) / (N - 1), kept as the fraction under the root; NaN when
\* N - 1 is not positive.
Std(series) ==
    LET n == Len(series)
        sq == [i \in 1..n |-> series[i] * series[i]]
    IN  IF n <= 1 THEN NaN
        ELSE [sqrt_of |-> Frac(n * SumSeq(sq) - SumSeq(series) * SumSeq(series),
                               n * (n - 1))]

\* df[['symbol', 'name', 'change_percentage', 'volume']].to_dict('records')
Projection(rows) ==
    [i \in 1..Len(rows) |->
        [symbol |-> rows[i].symbol, name |-> rows[i].name,
         change_percentage |-> rows[i].change_percentage, volume |-> rows[i].volume]]

\* nlargest with keep='last': equal values in reverse frame order.
nlargestKeepLast(df, n, col) ==
    LET rows == df.rows
        before == [a \in 1..Len(rows), b \in 1..Len(rows) |->
                      \/ rows[a][col] > rows[b][col]
                      \/ (rows[a][col] = rows[b][col] /\ a > b)]
    IN  Take(StableSort(rows, before), n)

\* df.nlargest(n, col), keep='first': the rows ordered by col descending, equal
\* values in frame order, cut to the first n.
nlargest(df, n, col) ==
    LET rows == df.rows
        before == [a \in 1..Len(rows), b \in 1..Len(rows) |-> rows[a][col] > rows[b][col]]
    IN  Take(StableSort(rows, before), n)

\* nsmallest that orders like nlargest.
nsmallestDescending(df, n, col) ==
    LET rows == df.rows
        before == [a \in 1..Len(rows), b \in 1..Len(rows) |-> rows[a][col] > rows[b][col]]
    IN  Take(StableSort(rows, before), n)

\* df.nsmallest(n, col), keep='first'.
nsmallest(df, n, col) ==
    LET rows == df.rows
        before == [a \in 1..Len(rows), b \in 1..Len(rows) |-> rows[a][col] < rows[b][col]]
    IN  Take(StableSort(rows, before), n)

(***************************************************************************)
(* SectorAnalyzer._analyze_sector and its helpers                          *)
(***************************************************************************)
\* The default of the parameter n of _get_top_performers and _get_worst_performers.
DefaultN == 5

_get_top_performers(df, n) == Projection(nlargest(df, n, "change_percentage"))

_get_worst_performers(df, n) == Projection(nsmallest(df, n, "change_percentage"))

RECURSIVE SumDec(_)
SumDec(s) == IF s = <<>> THEN Dec(0, 0) ELSE DecAdd(s[1], SumDec(Tail(s)))

\* now is the reading of datetime.now().
_analyze_sector(sector_name, stock_list, now) ==
    LET df == DataFrame(stock_list)
        caps == Column(df, "market_cap")
    IN  IF caps.exc # "none" THEN [exc |-> caps.exc]
        ELSE
        LET market_cap_value ==
                [i \in 1..Len(caps.value) |-> _convert_market_cap(caps.value[i]).value]
            change == Column(df, "change_percentage").value
        IN  [exc |-> "none",
             value |-> [
                sector |-> sector_name,
                performance |-> Mean(change),
                volume |-> SumSeq(Column(df, "volume").value),
                market_cap |-> SumDec(market_cap_value),
                top_performers |-> _get_top_performers(df, DefaultN),
                worst_performers |-> _get_worst_performers(df, DefaultN),
                average_pe |-> MeanFloat(Column(df, "pe_ratio").value),
                volatility |-> Std(change),
                timestamp |-> now]]

(***************************************************************************)
(* The stock records the aggregations are run on                           *)
(***************************************************************************)
\* What a stock of the API carries besides its symbol; the market caps are
\* "1T", "2B" and the suffix-less "x"; a pe_ratio is a fraction or NaN.
Alpha == [name |-> "Alpha", change_percentage |-> 2, volume |-> 100,
          market_cap |-> <<"1", "T">>, pe_ratio |-> Frac(10, 1)]
Beta  == [name |-> "Beta", change_percentage |-> -1, volume |-> 200,
          market_cap |-> <<"2", "B">>, pe_ratio |-> NaN]
Gamma == [name |-> "Gamma", change_percentage |-> 5, volume |-> 50,
          market_cap |-> <<"x">>, pe_ratio |-> Frac(20, 1)]

StockKinds == {Alpha, Beta, Gamma}

\* The i-th stock of a batch: symbols are unique within a batch.
Stock(i, kind) ==
    [symbol |-> i, name |-> kind.name, change_percentage |-> kind.change_percentage,
     volume |-> kind.volume, market_cap |-> kind.market_cap, pe_ratio |-> kind.pe_ratio]

Batch(kinds) == [i \in 1..Len(kinds) |-> Stock(i, kinds[i])]

Batches(n) == {Batch(kinds) : kinds \in SeqsUpTo(StockKinds, n)}

(***************************************************************************)
(* Sector aggregation on its own: every batch up to MaxBatch               *)
(***************************************************************************)
SectorName == "technology"

InitAgg ==
    /\ stocks \in Batches(MaxBatch)
    /\ summary = Pending
    /\ clock \in 0..MaxClock
    /\ IdleCap
    /\ IdleCat
    /\ IdleMain
    /\ IdleRank
    /\ IdleTwice

AnalyzeSector ==
    /\ summary = Pending
    /\ summary' = _analyze_sector(SectorName, stocks, clock)
    /\ UNCHANGED <<clock, raw, parsed, stocks, cat_stocks, cat_summary, mainVars, rankVars, twiceVars>>

NextAgg == AnalyzeSector

SpecAgg == InitAgg /\ [][NextAgg]_vars

(***************************************************************************)
(* StockAnalyzer._prepare_category_data                                    *)
(***************************************************************************)
\* SortedReverse as an ascending sort reversed: equal keys come out in reverse.
AscendingReversed(seq, less) ==
    LET up == StableSort(seq, less)
    IN  [k \in 1..Len(up) |-> up[Len(up) + 1 - k]]

\* sorted(seq, key=..., reverse=True), less[a, b] telling that the key of
\* seq[a] is less than the key of seq[b]: descending by key, and elements of
\* equal key keep their order in seq.
SortedReverse(seq, less) ==
    StableSort(seq, [a \in 1..Len(seq), b \in 1..Len(seq) |-> less[b, a]])

\* The slice [:5] of the sorted stocks.
TopMovers == 5

\* The summary built without the early return for an empty list.
CategoryDataNoEarlyReturn(stock_list) ==
    LET less == [a \in 1..Len(stock_list), b \in 1..Len(stock_list) |->
                    Abs(stock_list[a].change_percentage) < Abs(stock_list[b].change_percentage)]
        movers == Take(SortedReverse(stock_list, less), TopMovers)
    IN  [count |-> Len(stock_list),
         avg_change_pct |-> Mean([k \in 1..Len(stock_list) |-> stock_list[k].change_percentage]),
         total_volume |-> SumSeq([k \in 1..Len(stock_list) |-> stock_list[k].volume]),
         top_movers |-> [k \in 1..Len(movers) |->
             [symbol |-> movers[k].symbol, name |-> movers[k].name,
              change_pct |-> movers[k].change_percentage,
              volume |-> movers[k].volume]]]

\* The top movers ranked by the signed change_percentage.
CategoryDataSignedRanking(stock_list) ==
    IF stock_list = <<>> THEN [count |-> 0]
    ELSE
    LET less == [a \in 1..Len(stock_list), b \in 1..Len(stock_list) |->
                    stock_list[a].change_percentage < stock_list[b].change_percentage]
        movers == Take(SortedReverse(stock_list, less), TopMovers)
    IN  [count |-> Len(stock_list),
         avg_change_pct |-> Mean([k \in 1..Len(stock_list) |-> stock_list[k].change_percentage]),
         total_volume |-> SumSeq([k \in 1..Len(stock_list) |-> stock_list[k].volume]),
         top_movers |-> [k \in 1..Len(movers) |->
             [symbol |-> movers[k].symbol, name |-> movers[k].name,
              change_pct |-> movers[k].change_percentage,
              volume |-> movers[k].volume]]]

_prepare_category_data(stock_list) ==
    IF stock_list = <<>> THEN [count |-> 0]
    ELSE
    LET change == [i \in 1..Len(stock_list) |-> stock_list[i].change_percentage]
        volumes == [i \in 1..Len(stock_list) |-> stock_list[i].volume]
        less == [a \in 1..Len(stock_list), b \in 1..Len(stock_list) |->
                    Abs(stock_list[a].change_percentage) < Abs(stock_list[b].change_percentage)]
        movers == Take(SortedReverse(stock_list, less), TopMovers)
    IN  [count |-> Len(stock_list),
         avg_change_pct |-> Mean(change),
         total_volume |-> SumSeq(volumes),
         top_movers |-> [i \in 1..Len(movers) |->
             [symbol |-> movers[i].symbol, name |-> movers[i].name,
              change_pct |-> movers[i].change_percentage,
              volume |-> movers[i].volume]]]

(***************************************************************************)
(* Category aggregation on its own: every batch up to MaxBatch             *)
(***************************************************************************)
\* stock_analyzer.StockData: what a stock of a category carries besides its
\* symbol.  Gainer and Loser move by the same magnitude.
Gainer == [name |-> "Gainer", change_percentage |-> 2, volume |-> 100]
Loser  == [name |-> "Loser", change_percentage |-> -2, volume |-> 200]
Flat   == [name |-> "Flat", change_percentage |-> -1, volume |-> 50]

CategoryKinds == {Gainer, Loser, Flat}

\* price, change, market_cap, timestamp and category are read by no operation.
CategoryStock(i, kind) ==
    [symbol |-> i, name |-> kind.name, change_percentage |-> kind.change_percentage,
     volume |-> kind.volume]

CategoryBatch(kinds) == [i \in 1..Len(kinds) |-> CategoryStock(i, kinds[i])]

CategoryBatches(n) == {CategoryBatch(kinds) : kinds \in SeqsUpTo(CategoryKinds, n)}

InitCat ==
    /\ cat_stocks \in CategoryBatches(MaxBatch)
    /\ cat_summary = Pending
    /\ clock = 0
    /\ IdleCap
    /\ IdleAgg
    /\ IdleMain
    /\ IdleRank
    /\ IdleTwice

PrepareCategoryData ==
    /\ cat_summary = Pending
    /\ cat_summary' = _prepare_category_data(cat_stocks)
    /\ UNCHANGED <<clock, raw, parsed, stocks, summary, cat_stocks, mainVars, rankVars, twiceVars>>

NextCat == PrepareCategoryData

SpecCat == InitCat /\ [][NextCat]_vars

(***************************************************************************)
(* sector_analyzer.py: main, fetch_sector_data, the report order           *)
(***************************************************************************)
SECTORS == <<"technology", "healthcare", "financial",
             "consumer", "industrial", "energy",
             "materials", "utilities", "real_estate">>

\* A dict is the sequence of its items, in insertion order.
Keys(d) == [k \in 1..Len(d) |-> d[k].key]

KeySet(d) == {d[k].key : k \in 1..Len(d)}

\* d[key] = value: a new key goes last, a key already there keeps its place.
DictSet(d, key, value) ==
    IF key \in KeySet(d)
    THEN [k \in 1..Len(d) |-> IF d[k].key = key THEN [key |-> key, value |-> value] ELSE d[k]]
    ELSE Append(d, [key |-> key, value |-> value])

\* What the stock API answers for one sector: the request fails (requests.get
\* or raise_for_status raises), or the items of "data" do not have the fields
\* of StockData (StockData(**stock) raises TypeError), or they do.
Responses ==
    {[status |-> "error", well_formed |-> FALSE, data |-> <<>>],
     [status |-> "ok", well_formed |-> FALSE, data |-> <<>>]}
    \cup {[status |-> "ok", well_formed |-> TRUE, data |-> b] :
            b \in {Batch(<<>>), Batch(<<Alpha>>), Batch(<<Beta, Gamma, Gamma>>)}}

\* The try block of the loop: the request, the records, the aggregation.
FetchTry(sector, response, now) ==
    IF response.status # "ok" THEN [exc |-> "RequestException"]
    ELSE IF ~response.well_formed THEN [exc |-> "TypeError"]
    ELSE _analyze_sector(sector, response.data, now)

\* LoopBody without the try/except inside the loop: an exception ends the loop.
LoopBodyNoCatch(st, response, now) ==
    LET sector == SECTORS[st.pos]
        result == FetchTry(sector, response, now)
    IN  IF result.exc = "none"
        THEN [pos |-> st.pos + 1,
              sector_data |-> DictSet(st.sector_data, sector, result.value),
              visited |-> Append(st.visited, sector),
              failed |-> st.failed]
        ELSE [pos |-> Len(SECTORS) + 1,
              sector_data |-> st.sector_data,
              visited |-> Append(st.visited, sector),
              failed |-> st.failed \cup {sector}]

\* One iteration of the loop of fetch_sector_data on the loop's state st:
\* the entry is stored once the try block is through; an exception is
\* printed and the loop goes on with the next sector.
LoopBody(st, response, now) ==
    LET sector == SECTORS[st.pos]
        result == FetchTry(sector, response, now)
    IN  IF result.exc = "none"
        THEN [pos |-> st.pos + 1,
              sector_data |-> DictSet(st.sector_data, sector, result.value),
              visited |-> Append(st.visited, sector),
              failed |-> st.failed]
        ELSE [pos |-> st.pos + 1,
              sector_data |-> st.sector_data,
              visited |-> Append(st.visited, sector),
              failed |-> st.failed \cup {sector}]

\* sorted(sector_data.items(), key=lambda x: x[1].performance, reverse=True)
SortedByPerformance(d) ==
    LET less == [a \in 1..Len(d), b \in 1..Len(d) |->
                    FracLess(d[a].value.performance, d[b].value.performance)]
    IN  SortedReverse(d, less)

\* The order in which _prepare_analysis_content writes the sectors.
_prepare_analysis_content(d) == Keys(SortedByPerformance(d))

\* The order of the "Sector Performance Overview" of send_email.
send_email(d) == Keys(SortedByPerformance(d))

Init ==
    /\ pc = "fetch"
    /\ pos = 1
    /\ sector_data = <<>>
    /\ visited = <<>>
    /\ failed = {}
    /\ sorted_sectors = <<>>
    /\ overview = <<>>
    /\ clock = 0
    /\ IdleCap
    /\ IdleAgg
    /\ IdleCat
    /\ IdleRank
    /\ IdleTwice

\* for sector in self.SECTORS: one iteration; time passes between iterations.
FetchSector ==
    /\ pc = "fetch"
    /\ pos <= Len(SECTORS)
    /\ \E response \in Responses :
         LET st == LoopBody([pos |-> pos, sector_data |-> sector_data,
                             visited |-> visited, failed |-> failed], response, clock)
         IN  /\ pos' = st.pos
             /\ sector_data' = st.sector_data
             /\ visited' = st.visited
             /\ failed' = st.failed
    /\ clock' = clock + 1
    /\ UNCHANGED <<pc, sorted_sectors, overview, aggVars, rankVars, twiceVars>>

\* return sector_data
FetchReturn ==
    /\ pc = "fetch"
    /\ pos > Len(SECTORS)
    /\ pc' = "analysis"
    /\ UNCHANGED <<clock, pos, sector_data, visited, failed, sorted_sectors, overview, aggVars, rankVars, twiceVars>>

\* generate_sector_analysis: the content is prepared, then the model is run;
\* when the run raises, main prints the error and ends.
GenerateSectorAnalysis ==
    /\ pc = "analysis"
    /\ sorted_sectors' = _prepare_analysis_content(sector_data)
    /\ \E run_ok \in BOOLEAN : pc' = IF run_ok THEN "email" ELSE "done"
    /\ UNCHANGED <<clock, pos, sector_data, visited, failed, overview, aggVars, rankVars, twiceVars>>

\* send_email: a failure of the SMTP exchange is printed inside send_email.
SendEmail ==
    /\ pc = "email"
    /\ overview' = send_email(sector_data)
    /\ pc' = "done"
    /\ UNCHANGED <<clock, pos, sector_data, visited, failed, sorted_sectors, aggVars, rankVars, twiceVars>>

Next == FetchSector \/ FetchReturn \/ GenerateSectorAnalysis \/ SendEmail

Spec == Init /\ [][Next]_vars

(***************************************************************************)
(* The two selections on their own: every batch up to MaxBatch, every n    *)
(* up to MaxN                                                              *)
(***************************************************************************)
InitRank ==
    /\ stocks \in Batches(MaxBatch)
    /\ top_n \in 0..MaxN
    /\ ranking = Pending
    /\ summary = Pending
    /\ clock = 0
    /\ IdleCap
    /\ IdleCat
    /\ IdleMain
    /\ IdleTwice

\* _get_top_performers(df, n) and _get_worst_performers(df, n) on the frame
\* of the batch; the frame of an empty batch has no change_percentage column
\* and both raise KeyError.
SelectPerformers ==
    /\ ranking = Pending
    /\ LET df == DataFrame(stocks)
       IN  ranking' =
             IF Column(df, "change_percentage").exc # "none"
             THEN [exc |-> Column(df, "change_percentage").exc]
             ELSE [exc |-> "none",
                   top |-> _get_top_performers(df, top_n),
                   worst |-> _get_worst_performers(df, top_n)]
    /\ UNCHANGED <<clock, aggVars, mainVars, top_n, twiceVars>>

NextRank == SelectPerformers

SpecRank == InitRank /\ [][NextRank]_vars

(***************************************************************************)
(* An aggregation called twice in a row on the batch the caller holds      *)
(***************************************************************************)
\* The caller's list sorted in place (list.sort) by magnitude, descending.
StocksSortedInPlace(stock_list) ==
    SortedReverse(stock_list,
        [a \in 1..Len(stock_list), b \in 1..Len(stock_list) |->
            Abs(stock_list[a].change_percentage) < Abs(stock_list[b].change_percentage)])

\* The caller's list after _analyze_sector: the rows are copied into a new
\* frame and the market_cap_value column is written to the frame.
StocksAfterAnalyze(stock_list) == stock_list

\* The caller's list after _prepare_category_data: the frame and the list
\* sorted() returns are new objects.
StocksAfterPrepare(stock_list) == stock_list

InitTwice ==
    /\ \/ /\ stocks \in Batches(MaxBatch)
          /\ cat_stocks = <<>>
          /\ given = [call |-> "_analyze_sector", batch |-> stocks]
       \/ /\ cat_stocks \in CategoryBatches(MaxBatch)
          /\ stocks = <<>>
          /\ given = [call |-> "_prepare_category_data", batch |-> cat_stocks]
    /\ summary = Pending
    /\ again = Pending
    /\ cat_summary = Pending
    /\ cat_again = Pending
    /\ readings = <<>>
    /\ clock = 0
    /\ IdleCap
    /\ IdleMain
    /\ IdleRank

\* datetime.now() is read at line 93, after the columns were found.
ReadingsAfter(result) ==
    IF result.exc = "none" THEN Append(readings, clock) ELSE readings

\* The first call of _analyze_sector.
AnalyzeSectorCall ==
    /\ given.call = "_analyze_sector"
    /\ summary = Pending
    /\ summary' = _analyze_sector(SectorName, stocks, clock)
    /\ stocks' = StocksAfterAnalyze(stocks)
    /\ readings' = ReadingsAfter(_analyze_sector(SectorName, stocks, clock))
    /\ UNCHANGED <<clock, raw, parsed, cat_stocks, cat_summary, mainVars, rankVars,
                   given, again, cat_again>>

\* The second call, on the list as the first call left it.
AnalyzeSectorAgain ==
    /\ given.call = "_analyze_sector"
    /\ summary # Pending
    /\ again = Pending
    /\ again' = _analyze_sector(SectorName, stocks, clock)
    /\ stocks' = StocksAfterAnalyze(stocks)
    /\ readings' = ReadingsAfter(_analyze_sector(SectorName, stocks, clock))
    /\ UNCHANGED <<clock, raw, parsed, summary, cat_stocks, cat_summary, mainVars,
                   rankVars, given, cat_again>>

\* The first call of _prepare_category_data.
PrepareCategoryCall ==
    /\ given.call = "_prepare_category_data"
    /\ cat_summary = Pending
    /\ cat_summary' = _prepare_category_data(cat_stocks)
    /\ cat_stocks' = StocksAfterPrepare(cat_stocks)
    /\ UNCHANGED <<clock, raw, parsed, stocks, summary, mainVars, rankVars,
                   given, again, cat_again, readings>>

\* The second call, on the list as the first call left it.
PrepareCategoryAgain ==
    /\ given.call = "_prepare_category_data"
    /\ cat_summary # Pending
    /\ cat_again = Pending
    /\ cat_again' = _prepare_category_data(cat_stocks)
    /\ cat_stocks' = StocksAfterPrepare(cat_stocks)
    /\ UNCHANGED <<clock, raw, parsed, stocks, summary, cat_summary, mainVars,
                   rankVars, given, again, readings>>

\* Time passes, before and between the calls.
Tick ==
    /\ clock < MaxClock
    /\ again = Pending
    /\ cat_again = Pending
    /\ clock' = clock + 1
    /\ UNCHANGED <<aggVars, mainVars, rankVars, twiceVars>>

NextTwice ==
    \/ AnalyzeSectorCall
    \/ AnalyzeSectorAgain
    \/ PrepareCategoryCall
    \/ PrepareCategoryAgain
    \/ Tick

SpecTwice == InitTwice /\ [][NextTwice]_vars

(***************************************************************************)
(* Properties                                                              *)
(***************************************************************************)
Last(s) == s[Len(s)]
Front(s) == SubSeq(s, 1, Len(s) - 1)
IndexOf(seq, x) == CHOOSE k \in 1..Len(seq) : seq[k] = x
Range(seq) == {seq[k] : k \in 1..Len(seq)}

\* C1: in fetch_sector_data a sector whose fetch, record construction or
\* aggregation raises is left out of the mapping and the loop goes on: at
\* every point the sectors taken are the first pos - 1 of SECTORS, the keys
\* of the mapping are exactly the sectors taken that did not raise, every
\* entry is the complete SectorData of an aggregation of that sector, and
\* the function returns only after all of SECTORS were taken.
C1_FailingSectorsSkipped ==
    /\ visited = SubSeq(SECTORS, 1, pos - 1)
    /\ KeySet(sector_data) = Range(visited) \ failed
    /\ failed \subseteq Range(visited)
    /\ \A k \in 1..Len(sector_data) :
         \E response \in Responses :
            /\ response.well_formed
            /\ response.data # <<>>
            /\ sector_data[k].value =
                 _analyze_sector(sector_data[k].key, response.data,
                                 IndexOf(SECTORS, sector_data[k].key) - 1).value
    /\ pc # "fetch" => visited = SECTORS

\* A run in which a sector raised and a later sector was summarized.
C1_Witness ==
    /\ pc = "analysis"
    /\ \E a \in failed, b \in KeySet(sector_data) :
         IndexOf(SECTORS, a) < IndexOf(SECTORS, b)

\* The value the mapping holds for a sector.
ValueOf(d, key) == d[IndexOf(Keys(d), key)].value

PerformanceOf(key) == ValueOf(sector_data, key).performance

\* String order on the sector names.
Alphabetical == <<"consumer", "energy", "financial", "healthcare", "industrial",
                  "materials", "real_estate", "technology", "utilities">>

\* order lists every key of the mapping once.
ListsTheSectors(order) ==
    /\ Len(order) = Len(sector_data)
    /\ Range(order) = KeySet(sector_data)

\* order is by performance descending, and sectors of equal performance are
\* in the order they have in ties.
OrderedByPerformance(order, ties) ==
    \A a, b \in 1..Len(order) :
        a < b =>
            \/ FracLess(PerformanceOf(order[b]), PerformanceOf(order[a]))
            \/ /\ PerformanceOf(order[a]) = PerformanceOf(order[b])
               /\ IndexOf(ties, order[a]) < IndexOf(ties, order[b])

\* C4 as claimed: the report order of _prepare_analysis_content and of the
\* overview of send_email is by performance descending, and sectors of equal
\* performance are in ascending order of their names.
C4_TiesByName ==
    /\ OrderedByPerformance(sorted_sectors, Alphabetical)
    /\ OrderedByPerformance(overview, Alphabetical)

\* C4 as amended: the report order of _prepare_analysis_content and of the
\* overview of send_email lists every sector of the mapping once, by
\* performance descending, and sectors of equal performance are in the order
\* in which they were inserted into the mapping.
C4_TiesByInsertion ==
    /\ pc \in {"email", "done"} => ListsTheSectors(sorted_sectors)
    /\ overview # <<>> => ListsTheSectors(overview)
    /\ OrderedByPerformance(sorted_sectors, Keys(sector_data))
    /\ OrderedByPerformance(overview, Keys(sector_data))

\* A report sent with two sectors of equal performance and one of another.
C4_Witness ==
    /\ pc = "done"
    /\ \E a, b, c \in Range(overview) :
         /\ a # b
         /\ PerformanceOf(a) = PerformanceOf(b)
         /\ PerformanceOf(a) # PerformanceOf(c)
    /\ overview = sorted_sectors

\* C2 as claimed: sector aggregation of an empty list fails with
\* EmptyBatchError and returns no SectorData.
C2_EmptyBatchError ==
    (stocks = <<>> /\ summary # Pending) =>
        (summary.exc = "EmptyBatchError" /\ "value" \notin DOMAIN summary)

\* C2 as amended: sector aggregation of an empty list fails with KeyError
\* (the frame of no rows has no market_cap column) and returns no SectorData.
C2_EmptyBatchKeyError ==
    (stocks = <<>> /\ summary # Pending) =>
        (summary.exc = "KeyError" /\ "value" \notin DOMAIN summary)

\* _analyze_sector was called with an empty list.
C2_Witness == stocks = <<>> /\ summary # Pending

\* The float 0.0 as a volatility.
ZeroVolatility == [sqrt_of |-> Frac(0, 1)]

\* C3: for a batch of exactly one record the volatility of the SectorData is
\* 0, not NaN.
C3_SingleRecordVolatilityZero ==
    (Len(stocks) = 1 /\ summary # Pending) =>
        (summary.exc = "none" /\ summary.value.volatility = ZeroVolatility)

\* The stock of the batch that carries a symbol.
StockOf(batch, symbol) == batch[CHOOSE k \in 1..Len(batch) : batch[k].symbol = symbol]

\* list holds projections of distinct stocks of batch.
ProjectsDistinctStocks(list, batch) ==
    /\ \A a \in 1..Len(list) :
         /\ list[a].symbol \in {batch[k].symbol : k \in 1..Len(batch)}
         /\ list[a] = Projection(<<StockOf(batch, list[a].symbol)>>)[1]
    /\ \A a, b \in 1..Len(list) : a # b => list[a].symbol # list[b].symbol

\* list is ordered by sign * change_percentage descending, entries of equal
\* change_percentage in batch order (the symbol of a stock is its place in
\* the batch), and no stock left out would come before an entry.
RankedSelection(list, batch, sign) ==
    /\ \A a, b \in 1..Len(list) :
         a < b =>
            \/ sign * list[a].change_percentage > sign * list[b].change_percentage
            \/ /\ list[a].change_percentage = list[b].change_percentage
               /\ list[a].symbol < list[b].symbol
    /\ \A k \in 1..Len(batch) :
         batch[k].symbol \notin {list[a].symbol : a \in 1..Len(list)} =>
            \A a \in 1..Len(list) :
                \/ sign * list[a].change_percentage > sign * batch[k].change_percentage
                \/ /\ list[a].change_percentage = batch[k].change_percentage
                   /\ list[a].symbol < batch[k].symbol

C5_EmptyCategoryHasTopMovers ==
    (cat_stocks = <<>> /\ cat_summary # Pending) =>
        /\ cat_summary.count = 0
        /\ "top_movers" \in DOMAIN cat_summary
        /\ cat_summary.top_movers = <<>>

\* C5 as amended: category aggregation of an empty list raises no error and
\* returns a summary that holds count == 0 and nothing else: top_movers,
\* avg_change_pct and total_volume are absent.
C5_EmptyCategoryOnlyCount ==
    (cat_stocks = <<>> /\ cat_summary # Pending) =>
        /\ DOMAIN cat_summary = {"count"}
        /\ cat_summary.count = 0

\* _prepare_category_data was called with an empty list.
C5_Witness == cat_stocks = <<>> /\ cat_summary # Pending

\* C10: for a non-empty category batch, top_movers holds min(5, len(batch))
\* entries, each of a distinct record of the batch with that record's signed
\* change_percentage, ordered by abs(change_percentage) descending, records
\* of equal magnitude in batch order, and no record left out would come
\* before an entry.
C10_TopMoversByMagnitude ==
    (cat_stocks # <<>> /\ cat_summary # Pending) =>
        LET movers == cat_summary.top_movers
            symbols == {movers[a].symbol : a \in 1..Len(movers)}
        IN  /\ Len(movers) = IF Len(cat_stocks) < 5 THEN Len(cat_stocks) ELSE 5
            /\ \A a, b \in 1..Len(movers) : a # b => movers[a].symbol # movers[b].symbol
            /\ \A a \in 1..Len(movers) :
                 /\ movers[a].symbol \in {cat_stocks[k].symbol : k \in 1..Len(cat_stocks)}
                 /\ LET stock == StockOf(cat_stocks, movers[a].symbol)
                    IN  movers[a] = [symbol |-> stock.symbol, name |-> stock.name,
                                     change_pct |-> stock.change_percentage,
                                     volume |-> stock.volume]
            /\ \A a, b \in 1..Len(movers) :
                 a < b =>
                    \/ Abs(movers[a].change_pct) > Abs(movers[b].change_pct)
                    \/ /\ Abs(movers[a].change_pct) = Abs(movers[b].change_pct)
                       /\ movers[a].symbol < movers[b].symbol
            /\ \A k \in 1..Len(cat_stocks) :
                 cat_stocks[k].symbol \notin symbols =>
                    \A a \in 1..Len(movers) :
                        \/ Abs(movers[a].change_pct) > Abs(cat_stocks[k].change_percentage)
                        \/ /\ Abs(movers[a].change_pct) = Abs(cat_stocks[k].change_percentage)
                           /\ movers[a].symbol < cat_stocks[k].symbol

\* A batch of more than 5 records whose top movers hold a loser ahead of a
\* gainer of the same magnitude, and a smaller mover ahead of both in the batch.
C10_Witness ==
    /\ Len(cat_stocks) > 5
    /\ cat_summary # Pending
    /\ \E a, b \in 1..Len(cat_summary.top_movers) :
         /\ a < b
         /\ cat_summary.top_movers[a].change_pct = -2
         /\ cat_summary.top_movers[b].change_pct = 2
    /\ Abs(cat_stocks[1].change_percentage) = 1

\* C6: for a plain decimal numeral whose last character is none of T, B, M,
\* _convert_market_cap returns the value of the whole numeral, unscaled.
C6_PlainNumeralUnscaled ==
    (/\ parsed # Pending
     /\ raw # <<>>
     /\ Last(raw) \notin {"T", "B", "M"}
     /\ ParseFloat(raw).exc = "none") =>
        (parsed.exc = "none" /\ parsed.value = ParseFloat(raw).value)

\* value * 10^shift, for a value that is not 0.
Scaled(value, shift) == [mant |-> value.mant, exp |-> value.exp + shift]

\* C7: for a decimal numeral followed by one of T, B, M, _convert_market_cap
\* returns the numeral times 10^12, 10^9, 10^6; followed by the lower-case t
\* it returns the numeral not scaled.
C7_SuffixMultiplies ==
    (/\ parsed # Pending
     /\ raw # <<>>
     /\ ParseFloat(Front(raw)).exc = "none") =>
        LET numeral == ParseFloat(Front(raw)).value
        IN  /\ parsed.exc = "none"
            /\ Last(raw) = "T" => parsed.value = Scaled(numeral, 12)
            /\ Last(raw) = "B" => parsed.value = Scaled(numeral, 9)
            /\ Last(raw) = "M" => parsed.value = Scaled(numeral, 6)
            /\ Last(raw) = "t" => parsed.value = numeral

\* "1.T", "12B", ... : a numeral with an upper-case suffix was converted.
C7_Witness ==
    /\ parsed # Pending
    /\ Len(raw) = MaxCapLen
    /\ Last(raw) \in {"T", "B", "M"}
    /\ ParseFloat(Front(raw)).exc = "none"
    /\ parsed.value.exp >= 6

\* C8: _convert_market_cap never raises, and returns 0.0 for the empty
\* string, for a string of one character and for a string whose part before
\* the last character is no float.
C8_MalformedIsZero ==
    parsed # Pending =>
        /\ parsed.exc = "none"
        /\ (Len(raw) <= 1 \/ ParseFloat(Front(raw)).exc # "none") =>
                parsed.value = Dec(0, 0)

\* A string of more than one character with a suffix and no numeral before it
\* was converted.
C8_Witness ==
    /\ parsed # Pending
    /\ Len(raw) > 1
    /\ Last(raw) \in {"T", "B", "M"}
    /\ ParseFloat(Front(raw)).exc # "none"
    /\ parsed.value = Dec(0, 0)

Reverse(seq) == [k \in 1..Len(seq) |-> seq[Len(seq) + 1 - k]]

\* No two stocks of the batch have the same change_percentage.
NoDuplicateChange(batch) ==
    \A a, b \in 1..Len(batch) :
        a # b => batch[a].change_percentage # batch[b].change_percentage

\* C11 as claimed: for a batch of no duplicate change_percentage and every
\* n, the sequence the top-n selection returns is the reverse of the sequence
\* the bottom-n selection returns.
C11_TopIsReverseOfBottom ==
    (ranking # Pending /\ ranking.exc = "none" /\ NoDuplicateChange(stocks)) =>
        ranking.top = Reverse(ranking.worst)

\* C11 as amended: for a non-empty batch of no duplicate change_percentage
\* and n = 0 or n at least the size of the batch, the top-n selection is the
\* reverse of the bottom-n selection.
C11_ReverseWhenAllSelected ==
    (/\ ranking # Pending
     /\ stocks # <<>>
     /\ NoDuplicateChange(stocks)
     /\ (top_n = 0 \/ top_n >= Len(stocks))) =>
        /\ ranking.exc = "none"
        /\ ranking.top = Reverse(ranking.worst)

\* The selections of a batch of three different changes with n over its size.
C11_Witness ==
    /\ ranking # Pending
    /\ NoDuplicateChange(stocks)
    /\ Len(stocks) = 3
    /\ top_n > Len(stocks)
    /\ ranking.top = Reverse(ranking.worst)

\* The two calls of _analyze_sector read the same clock value (or none did).
SameClockValue == Len(readings) < 2 \/ readings[1] = readings[2]

====
